---- MODULE Spec2Model ----
(***************************************************************************)
(* SVLAccounting, src/server.js: the express route handlers for journal    *)
(* entries and the chart of accounts, the session check in front of them,  *)
(* and the two collections they read and write.                            *)
(*                                                                         *)
(* Every handler is cut at its awaits: the synchronous prefix of a handler *)
(* (validators, requireAuth, the id format check) is one step, and every   *)
(* awaited store call is one step.  A store call either runs against the   *)
(* collection as it is at that moment or fails (store unreachable).        *)
(***************************************************************************)
EXTENDS Integers, Sequences, FiniteSets, TLC

\* ---------------------------------------------------------------- bounds
\* Journal entries created over a run (each gets a fresh storage _id).
MaxCreated == 2
\* Accounts created over a run.
MaxAccounts == 2

\* The requests that can be in flight at once: two clients.
Reqs == {1, 2}
EIds == 1..MaxCreated
AIds == 1..MaxAccounts
\* A path parameter that is no ObjectId ("abc"); 0 stands for it.
BadId == 0

\* ------------------------------------------------ trans_id values (Mixed)
\* trans_id is Schema.Types.Mixed: a number, or a string of decimal digits
\* (k = "s", v its digits read as a number), or absent.
Num(v) == [k |-> "n", v |-> v]
Str(v) == [k |-> "s", v |-> v]
NoTid == [k |-> "-", v |-> 0]

\* The trans_id values a request body carries: none, a number, a string.
BodyTids == {NoTid, Num(1), Str(1)}

\* The account numbers a request body carries; 0 fails isInt({ min: 1 }).
BodyNumbers == {0, 1, 2}

RECURSIVE Digits(_)
Digits(v) == IF v < 10 THEN <<v>> ELSE Append(Digits(v \div 10), v % 10)

\* Binary string comparison of two digit strings.
RECURSIVE LexLess(_, _)
LexLess(a, b) ==
  IF b = <<>> THEN FALSE
  ELSE IF a = <<>> THEN TRUE
  ELSE IF Head(a) # Head(b) THEN Head(a) < Head(b)
  ELSE LexLess(Tail(a), Tail(b))

TypeRank(t) == IF t.k = "-" THEN 0 ELSE IF t.k = "n" THEN 1 ELSE 2

\* The store's sort order on trans_id: absent < numbers < strings.
TidLess(a, b) ==
  \/ TypeRank(a) < TypeRank(b)
  \/ /\ a.k = "n" /\ b.k = "n" /\ a.v < b.v
  \/ /\ a.k = "s" /\ b.k = "s" /\ LexLess(Digits(a.v), Digits(b.v))

\* lastEntry.trans_id + 1 in JavaScript: addition on a number, and on a
\* string the concatenation with "1".
PlusOne(t) == IF t.k = "s" THEN Str(t.v * 10 + 1) ELSE Num(t.v + 1)

VARIABLES
  sessionUser,  \* req.session.user is set for the client's session
  journal,      \* journalentries: _id -> trans_id, NoTid where no document
  accounts,     \* accounts: _id -> number, 0 where no document
  req,          \* the request in each slot
  created,      \* number of entries saved by POST /journal so far
  maxGiven,     \* largest trans_id a POST /journal has stored so far
  acreated,     \* number of accounts inserted so far
  sequential,   \* so far no POST /journal began while another was in
                \* flight, and no DELETE or PUT changed journalentries
  edited        \* a PUT /journal/:id wrote an entry

vars == <<sessionUser, journal, accounts, req, created, maxGiven, acreated,
          sequential, edited>>

Idle == [kind |-> "none", pc |-> "idle", id |-> BadId, btid |-> NoTid,
         num |-> 0, tid |-> NoTid, resp |-> 0, err |-> "", reads |-> 0,
         writes |-> 0, nresp |-> 0]

NewReq(kind, id, btid, num) ==
  [Idle EXCEPT !.kind = kind, !.id = id, !.btid = btid, !.num = num]

\* res.status(code).json(...): the request is answered and over; what is
\* kept of it is the endpoint, the answer and the store calls it made.
Respond(q, code, e) ==
  [q EXCEPT !.pc = "done", !.resp = code, !.err = e, !.nresp = @ + 1,
            !.id = BadId, !.btid = NoTid, !.num = 0, !.tid = NoTid]

\* res.json(entry): the answer carries the stored entry.
RespondEntry(q, id, t) == [Respond(q, 200, "") EXCEPT !.id = id, !.tid = t]

Free(r) == req[r].pc \in {"idle", "done"}

Stored(j) == {i \in DOMAIN j : j[i] # NoTid}
StoredAcc(a) == {i \in DOMAIN a : a[i] # 0}

Init ==
  /\ sessionUser = FALSE
  /\ journal = [i \in EIds |-> NoTid]
  /\ accounts = [i \in AIds |-> 0]
  /\ req = [r \in Reqs |-> Idle]
  /\ created = 0
  /\ maxGiven = NoTid
  /\ acreated = 0
  /\ sequential = TRUE
  /\ edited = FALSE

\* ------------------------------------------------------------------ auth
\* A middleware that calls next() whatever the session holds.
RequireAuthOpen == TRUE

\* requireAuth: req.session && req.session.user
RequireAuth == sessionUser

AuthGoogle ==
  /\ \E tokenOk \in BOOLEAN :
       sessionUser' = IF tokenOk THEN TRUE ELSE sessionUser
  /\ UNCHANGED <<journal, accounts, req, created, maxGiven, acreated,
                 sequential, edited>>

AuthLogout ==
  /\ \E destroyed \in BOOLEAN :
       sessionUser' = IF destroyed THEN FALSE ELSE sessionUser
  /\ UNCHANGED <<journal, accounts, req, created, maxGiven, acreated,
                 sequential, edited>>

\* cookie maxAge: the session lapses.
SessionExpire ==
  /\ sessionUser
  /\ sessionUser' = FALSE
  /\ UNCHANGED <<journal, accounts, req, created, maxGiven, acreated,
                 sequential, edited>>

\* The synchronous prefix of a protected handler with body validators.
Admit(q, bodyOk, idOk, pc) ==
  IF ~RequireAuth THEN Respond(q, 401, "auth")
  ELSE IF ~bodyOk THEN Respond(q, 400, "validation")
  ELSE IF ~idOk THEN Respond(q, 400, "format")
  ELSE [q EXCEPT !.pc = pc]

\* --------------------------------------------------------- journal store
LastEntry(j) ==
  CHOOSE i \in Stored(j) : \A k \in Stored(j) : ~TidLess(j[i], j[k])

\* The increment left out: the maximum itself is handed out again.
GetNextTidNoIncrement(j) ==
  IF Stored(j) = {} THEN Num(1) ELSE j[LastEntry(j)]

GetNextTid(j) ==
  IF Stored(j) = {} THEN Num(1) ELSE PlusOne(j[LastEntry(j)])

\* { trans_id, ...req.body }: a trans_id in the body would win.
EntryDocBodyLast(body, trans_id) == IF body # NoTid THEN body ELSE trans_id

\* new JournalEntry({ ...req.body, trans_id }): the allocated value wins.
EntryDoc(body, trans_id) == trans_id

\* trans_id declared without unique: true.
UniqueOkNoIndex(j, id, t) == TRUE

\* Uniqueness looked at when a document is inserted only.
UniqueOkInsertOnly(j, id, t) ==
  id \in Stored(j) \/ \A k \in Stored(j) : j[k] # t

\* The unique index on trans_id: no other document holds the value.
UniqueOk(j, id, t) == \A k \in Stored(j) \ {id} : j[k] # t

\* A catch block that runs the try block again.
PostJournalCatchRetry(q, e) == [q EXCEPT !.pc = "getNextTid"]

\* catch (err) { res.status(500).json({ error: err.message }) }
PostJournalCatch(q, e) == Respond(q, 500, e)

InFlightPost == {r \in Reqs : req[r].kind = "POST /journal" /\ ~Free(r)}

PostJournal(r) ==
  /\ Free(r)
  /\ created + Cardinality(InFlightPost) < MaxCreated
  /\ \E bodyOk \in BOOLEAN, bt \in BodyTids :
       LET q == Admit(NewReq("POST /journal", BadId, bt, 0), bodyOk, TRUE,
                      "getNextTid")
       IN /\ req' = [req EXCEPT ![r] = q]
          /\ sequential' = (sequential /\ (q.pc = "done" \/ InFlightPost = {}))
  /\ UNCHANGED <<sessionUser, journal, accounts, created, maxGiven, acreated,
                 edited>>

PostJournalGetNextTid(r) ==
  /\ req[r].kind = "POST /journal" /\ req[r].pc = "getNextTid"
  /\ \E ok \in BOOLEAN :
       LET q == [req[r] EXCEPT !.reads = @ + 1] IN
       req' = [req EXCEPT ![r] =
                 IF ok THEN [q EXCEPT !.pc = "save", !.tid = GetNextTid(journal)]
                 ELSE PostJournalCatch(q, "store")]
  /\ UNCHANGED <<sessionUser, journal, accounts, created, maxGiven, acreated,
                 sequential, edited>>

PostJournalSave(r) ==
  /\ req[r].kind = "POST /journal" /\ req[r].pc = "save"
  /\ \E ok \in BOOLEAN :
       LET q == [req[r] EXCEPT !.writes = @ + 1]
           id == created + 1
           t == EntryDoc(req[r].btid, req[r].tid)
       IN IF ~ok
          THEN /\ req' = [req EXCEPT ![r] = PostJournalCatch(q, "store")]
               /\ UNCHANGED <<journal, created, maxGiven>>
          ELSE IF ~UniqueOk(journal, id, t)
          THEN /\ req' = [req EXCEPT ![r] = PostJournalCatch(q, "duplicate")]
               /\ UNCHANGED <<journal, created, maxGiven>>
          ELSE /\ journal' = [journal EXCEPT ![id] = t]
               /\ created' = created + 1
               /\ maxGiven' = IF TidLess(maxGiven, t) THEN t ELSE maxGiven
               /\ req' = [req EXCEPT ![r] = RespondEntry(q, id, t)]
  /\ UNCHANGED <<sessionUser, accounts, acreated, sequential, edited>>

GetJournal(r) ==
  /\ Free(r)
  /\ req' = [req EXCEPT ![r] =
               Admit(NewReq("GET /journal", BadId, NoTid, 0), TRUE, TRUE, "find")]
  /\ UNCHANGED <<sessionUser, journal, accounts, created, maxGiven, acreated,
                 sequential, edited>>

GetJournalFind(r) ==
  /\ req[r].kind = "GET /journal" /\ req[r].pc = "find"
  /\ \E ok \in BOOLEAN :
       LET q == [req[r] EXCEPT !.reads = @ + 1] IN
       req' = [req EXCEPT ![r] =
                 IF ok THEN Respond(q, 200, "") ELSE Respond(q, 500, "store")]
  /\ UNCHANGED <<sessionUser, journal, accounts, created, maxGiven, acreated,
                 sequential, edited>>

\* A handler without the format check.
IsObjectIdHexAny(id) == TRUE

\* req.params.id.match(/^[0-9a-fA-F]{24}$/)
IsObjectIdHex(id) == id # BadId

GetJournalIdOf(r, id) ==
  /\ Free(r)
  /\ req' = [req EXCEPT ![r] =
               Admit(NewReq("GET /journal/:id", id, NoTid, 0), TRUE,
                     IsObjectIdHex(id), "findById")]
  /\ UNCHANGED <<sessionUser, journal, accounts, created, maxGiven, acreated,
                 sequential, edited>>

GetJournalId(r) == \E id \in EIds \cup {BadId} : GetJournalIdOf(r, id)

GetJournalIdFind(r) ==
  /\ req[r].kind = "GET /journal/:id" /\ req[r].pc = "findById"
  /\ \E ok \in BOOLEAN :
       LET q == [req[r] EXCEPT !.reads = @ + 1] IN
       req' = [req EXCEPT ![r] =
                 IF ~ok THEN Respond(q, 500, "store")
                 ELSE IF req[r].id \notin Stored(journal)
                 THEN Respond(q, 404, "notfound")
                 ELSE Respond(q, 200, "")]
  /\ UNCHANGED <<sessionUser, journal, accounts, created, maxGiven, acreated,
                 sequential, edited>>

PutJournal(r) ==
  /\ Free(r)
  /\ \E id \in EIds \cup {BadId}, bodyOk \in BOOLEAN, bt \in BodyTids :
       req' = [req EXCEPT ![r] =
                 Admit(NewReq("PUT /journal/:id", id, bt, 0), bodyOk,
                       IsObjectIdHex(id), "findByIdAndUpdate")]
  /\ UNCHANGED <<sessionUser, journal, accounts, created, maxGiven, acreated,
                 sequential, edited>>

\* findByIdAndUpdate(id, req.body): a trans_id in the body replaces the
\* stored one, under the unique index.
PutJournalUpdate(r) ==
  /\ req[r].kind = "PUT /journal/:id" /\ req[r].pc = "findByIdAndUpdate"
  /\ \E ok \in BOOLEAN :
       LET q == [req[r] EXCEPT !.writes = @ + 1]
           id == req[r].id
           t == IF req[r].btid = NoTid THEN journal[id] ELSE req[r].btid
       IN IF ~ok
          THEN /\ req' = [req EXCEPT ![r] = Respond(q, 500, "store")]
               /\ UNCHANGED <<journal, edited, sequential>>
          ELSE IF id \notin Stored(journal)
          THEN /\ req' = [req EXCEPT ![r] = Respond(q, 404, "notfound")]
               /\ UNCHANGED <<journal, edited, sequential>>
          ELSE IF ~UniqueOk(journal, id, t)
          THEN /\ req' = [req EXCEPT ![r] = Respond(q, 500, "duplicate")]
               /\ UNCHANGED <<journal, edited, sequential>>
          ELSE /\ journal' = [journal EXCEPT ![id] = t]
               /\ edited' = TRUE
               /\ sequential' = FALSE
               /\ req' = [req EXCEPT ![r] = Respond(q, 200, "")]
  /\ UNCHANGED <<sessionUser, accounts, created, maxGiven, acreated>>

DeleteJournal(r) ==
  /\ Free(r)
  /\ \E id \in EIds \cup {BadId} :
       req' = [req EXCEPT ![r] =
                 Admit(NewReq("DELETE /journal/:id", id, NoTid, 0), TRUE, TRUE,
                       "findByIdAndDelete")]
  /\ UNCHANGED <<sessionUser, journal, accounts, created, maxGiven, acreated,
                 sequential, edited>>

\* The model's cast of the id to ObjectId: a value that is no ObjectId
\* throws CastError before any command reaches the store.
CastsToObjectId(id) == id # BadId

DeleteJournalDelete(r) ==
  /\ req[r].kind = "DELETE /journal/:id" /\ req[r].pc = "findByIdAndDelete"
  /\ \E ok \in BOOLEAN :
       LET q == [req[r] EXCEPT !.writes = @ + 1]
           id == req[r].id
       IN IF ~CastsToObjectId(id)
          THEN /\ req' = [req EXCEPT ![r] = Respond(req[r], 500, "cast")]
               /\ UNCHANGED <<journal, sequential>>
          ELSE IF ~ok
          THEN /\ req' = [req EXCEPT ![r] = Respond(q, 500, "store")]
               /\ UNCHANGED <<journal, sequential>>
          ELSE IF id \notin Stored(journal)
          THEN /\ req' = [req EXCEPT ![r] = Respond(q, 404, "notfound")]
               /\ UNCHANGED <<journal, sequential>>
          ELSE /\ journal' = [journal EXCEPT ![id] = NoTid]
               /\ sequential' = FALSE
               /\ req' = [req EXCEPT ![r] = Respond(q, 204, "")]
  /\ UNCHANGED <<sessionUser, accounts, created, maxGiven, acreated, edited>>

\* -------------------------------------------------------- accounts store
\* body('number').isInt({ min: 1 })
IsIntMin1(n) == n >= 1

InFlightPostAcc == {r \in Reqs : req[r].kind = "POST /accounts" /\ ~Free(r)}

PostAccounts(r) ==
  /\ Free(r)
  /\ acreated + Cardinality(InFlightPostAcc) < MaxAccounts
  /\ \E n \in BodyNumbers, nameOk \in BOOLEAN :
       req' = [req EXCEPT ![r] =
                 Admit(NewReq("POST /accounts", BadId, NoTid, n),
                       IsIntMin1(n) /\ nameOk, TRUE, "findOne")]
  /\ UNCHANGED <<sessionUser, journal, accounts, created, maxGiven, acreated,
                 sequential, edited>>

\* A lookup that never finds a document.
ExistingNone(a, n, except) == {}

\* Account.findOne({ number }) and, for PUT, _id: { $ne: id }.
Existing(a, n, except) == {i \in StoredAcc(a) \ {except} : a[i] = n}

PostAccountsFindOne(r) ==
  /\ req[r].kind = "POST /accounts" /\ req[r].pc = "findOne"
  /\ \E ok \in BOOLEAN :
       LET q == [req[r] EXCEPT !.reads = @ + 1] IN
       req' = [req EXCEPT ![r] =
                 IF ~ok THEN Respond(q, 500, "store")
                 ELSE IF Existing(accounts, req[r].num, BadId) # {}
                 THEN Respond(q, 400, "duplicate")
                 ELSE [q EXCEPT !.pc = "save"]]
  /\ UNCHANGED <<sessionUser, journal, accounts, created, maxGiven, acreated,
                 sequential, edited>>

PostAccountsSave(r) ==
  /\ req[r].kind = "POST /accounts" /\ req[r].pc = "save"
  /\ \E ok \in BOOLEAN :
       LET q == [req[r] EXCEPT !.writes = @ + 1]
           id == acreated + 1
       IN IF ~ok
          THEN /\ req' = [req EXCEPT ![r] = Respond(q, 500, "store")]
               /\ UNCHANGED <<accounts, acreated>>
          ELSE /\ accounts' = [accounts EXCEPT ![id] = req[r].num]
               /\ acreated' = acreated + 1
               /\ req' = [req EXCEPT ![r] = Respond(q, 200, "")]
  /\ UNCHANGED <<sessionUser, journal, created, maxGiven, sequential, edited>>

GetAccounts(r) ==
  /\ Free(r)
  /\ req' = [req EXCEPT ![r] =
               Admit(NewReq("GET /accounts", BadId, NoTid, 0), TRUE, TRUE, "find")]
  /\ UNCHANGED <<sessionUser, journal, accounts, created, maxGiven, acreated,
                 sequential, edited>>

GetAccountsFind(r) ==
  /\ req[r].kind = "GET /accounts" /\ req[r].pc = "find"
  /\ \E ok \in BOOLEAN :
       LET q == [req[r] EXCEPT !.reads = @ + 1] IN
       req' = [req EXCEPT ![r] =
                 IF ok THEN Respond(q, 200, "") ELSE Respond(q, 500, "store")]
  /\ UNCHANGED <<sessionUser, journal, accounts, created, maxGiven, acreated,
                 sequential, edited>>

PutAccounts(r) ==
  /\ Free(r)
  /\ \E id \in AIds \cup {BadId}, n \in BodyNumbers, nameOk \in BOOLEAN :
       req' = [req EXCEPT ![r] =
                 Admit(NewReq("PUT /accounts/:id", id, NoTid, n),
                       IsIntMin1(n) /\ nameOk, TRUE, "findOne")]
  /\ UNCHANGED <<sessionUser, journal, accounts, created, maxGiven, acreated,
                 sequential, edited>>

PutAccountsFindOne(r) ==
  /\ req[r].kind = "PUT /accounts/:id" /\ req[r].pc = "findOne"
  /\ \E ok \in BOOLEAN :
       LET q == [req[r] EXCEPT !.reads = @ + 1] IN
       req' = [req EXCEPT ![r] =
                 IF ~CastsToObjectId(req[r].id) THEN Respond(req[r], 500, "cast")
                 ELSE IF ~ok THEN Respond(q, 500, "store")
                 ELSE IF Existing(accounts, req[r].num, req[r].id) # {}
                 THEN Respond(q, 400, "duplicate")
                 ELSE [q EXCEPT !.pc = "findByIdAndUpdate"]]
  /\ UNCHANGED <<sessionUser, journal, accounts, created, maxGiven, acreated,
                 sequential, edited>>

PutAccountsUpdate(r) ==
  /\ req[r].kind = "PUT /accounts/:id" /\ req[r].pc = "findByIdAndUpdate"
  /\ \E ok \in BOOLEAN :
       LET q == [req[r] EXCEPT !.writes = @ + 1]
           id == req[r].id
       IN IF ~ok
          THEN /\ req' = [req EXCEPT ![r] = Respond(q, 500, "store")]
               /\ UNCHANGED accounts
          ELSE IF id \notin StoredAcc(accounts)
          THEN /\ req' = [req EXCEPT ![r] = Respond(q, 404, "notfound")]
               /\ UNCHANGED accounts
          ELSE /\ accounts' = [accounts EXCEPT ![id] = req[r].num]
               /\ req' = [req EXCEPT ![r] = Respond(q, 200, "")]
  /\ UNCHANGED <<sessionUser, journal, created, maxGiven, acreated, sequential,
                 edited>>

DeleteAccounts(r) ==
  /\ Free(r)
  /\ \E id \in AIds \cup {BadId} :
       req' = [req EXCEPT ![r] =
                 Admit(NewReq("DELETE /accounts/:id", id, NoTid, 0), TRUE, TRUE,
                       "findByIdAndDelete")]
  /\ UNCHANGED <<sessionUser, journal, accounts, created, maxGiven, acreated,
                 sequential, edited>>

DeleteAccountsDelete(r) ==
  /\ req[r].kind = "DELETE /accounts/:id" /\ req[r].pc = "findByIdAndDelete"
  /\ \E ok \in BOOLEAN :
       LET q == [req[r] EXCEPT !.writes = @ + 1]
           id == req[r].id
       IN IF ~CastsToObjectId(id)
          THEN /\ req' = [req EXCEPT ![r] = Respond(req[r], 500, "cast")]
               /\ UNCHANGED accounts
          ELSE IF ~ok
          THEN /\ req' = [req EXCEPT ![r] = Respond(q, 500, "store")]
               /\ UNCHANGED accounts
          ELSE IF id \notin StoredAcc(accounts)
          THEN /\ req' = [req EXCEPT ![r] = Respond(q, 404, "notfound")]
               /\ UNCHANGED accounts
          ELSE /\ accounts' = [accounts EXCEPT ![id] = 0]
               /\ req' = [req EXCEPT ![r] = Respond(q, 204, "")]
  /\ UNCHANGED <<sessionUser, journal, created, maxGiven, acreated, sequential,
                 edited>>

\* ------------------------------------------------------- specifications
JournalWrite(r) ==
  \/ PostJournal(r)
  \/ PostJournalGetNextTid(r)
  \/ PostJournalSave(r)
  \/ PutJournal(r)
  \/ PutJournalUpdate(r)
  \/ DeleteJournal(r)
  \/ DeleteJournalDelete(r)

JournalRead(r) ==
  \/ GetJournal(r)
  \/ GetJournalFind(r)
  \/ GetJournalId(r)
  \/ GetJournalIdFind(r)

AccountsWrite(r) ==
  \/ PostAccounts(r)
  \/ PostAccountsFindOne(r)
  \/ PostAccountsSave(r)
  \/ PutAccounts(r)
  \/ PutAccountsFindOne(r)
  \/ PutAccountsUpdate(r)
  \/ DeleteAccounts(r)
  \/ DeleteAccountsDelete(r)

AccountsRead(r) ==
  \/ GetAccounts(r)
  \/ GetAccountsFind(r)

\* Every endpoint, one request at a time.
Next ==
  \/ AuthGoogle
  \/ AuthLogout
  \/ SessionExpire
  \/ JournalWrite(1)
  \/ JournalRead(1)
  \/ AccountsWrite(1)
  \/ AccountsRead(1)

Spec == Init /\ [][Next]_vars

\* The endpoints that write journalentries, two requests at a time.
NextJournal ==
  \/ AuthGoogle
  \/ AuthLogout
  \/ SessionExpire
  \/ \E r \in Reqs : JournalWrite(r)

SpecJournal == Init /\ [][NextJournal]_vars

\* The endpoints that write accounts, two requests at a time.
NextAccounts ==
  \/ AuthGoogle
  \/ AuthLogout
  \/ SessionExpire
  \/ \E r \in Reqs : AccountsWrite(r)

SpecAccounts == Init /\ [][NextAccounts]_vars

\* ----------------------------------------------------------------- claims
IsPost(q) == q.kind = "POST /journal"
IsDelete(q) == q.kind \in {"DELETE /journal/:id", "DELETE /accounts/:id"}
Holders(j, t) == {i \in Stored(j) : j[i] = t}

\* r's entry.save() returns or throws in this step.
SaveStep(r) == IsPost(req[r]) /\ req[r].pc = "save" /\ req'[r].pc = "done"

\* r's getNextTid() returns in this step.
ReadStep(r) == IsPost(req[r]) /\ req[r].pc = "getNextTid" /\ req'[r].pc = "save"

\* C1: from an empty collection, while creations run one at a time with no
\* delete or update, the k-th created entry is stored with trans_id = k and
\* the response of its request carries trans_id = k.
C1_SequentialTids ==
  sequential =>
    /\ \A k \in 1..created : journal[k] = Num(k)
    /\ \A r \in Reqs :
         (IsPost(req[r]) /\ req[r].resp = 200) => req[r].tid = Num(req[r].id)

C1_Witness ==
  /\ sequential
  /\ created >= 2
  /\ journal[1] = Num(1) /\ journal[2] = Num(2)
  /\ \E r \in Reqs : IsPost(req[r]) /\ req[r].resp = 200 /\ req[r].tid = Num(2)

AllNumbers(j) == \A i \in Stored(j) : j[i].k = "n"

C4_DuplicateRejected ==
  [][\A r \in Reqs :
       (/\ req[r].kind = "POST /accounts" /\ req[r].pc = "findOne"
        /\ req'[r] # req[r]
        /\ req'[r].err # "store"
        /\ \E i \in StoredAcc(accounts) : accounts[i] = req[r].num)
       => /\ req'[r].pc = "done"
          /\ req'[r].resp = 400
          /\ req'[r].err = "duplicate"
          /\ req'[r].writes = 0
          /\ accounts' = accounts
          /\ acreated' = acreated]_vars

C4_Witness ==
  \E r \in Reqs :
    /\ req[r].kind = "POST /accounts" /\ req[r].resp = 400
    /\ req[r].err = "duplicate" /\ req[r].writes = 0
    /\ StoredAcc(accounts) # {}

\* C5 as stated: an authenticated DELETE that removed no document (its id
\* identifies none), the store being reachable, is answered 404.
C5_DeleteMissingIs404 ==
  \A r \in Reqs :
    (/\ IsDelete(req[r]) /\ req[r].pc = "done"
     /\ req[r].resp \notin {401, 204}
     /\ req[r].err # "store")
    => req[r].resp = 404

\* C6: an authenticated GET /journal/:id whose id is not 24 hex characters
\* is answered 400 (format) in the step it arrives in, having made no call
\* to the store, and is over: it never reaches findById.
C6_MalformedIdNoRead ==
  [][\A r \in Reqs :
       (RequireAuth /\ GetJournalIdOf(r, BadId))
       => /\ req'[r].pc = "done"
          /\ req'[r].resp = 400
          /\ req'[r].err = "format"
          /\ req'[r].reads = 0
          /\ req'[r].writes = 0
          /\ req'[r].nresp = 1]_vars

C6_Witness ==
  /\ sessionUser
  /\ \E r \in Reqs :
       /\ req[r].kind = "GET /journal/:id" /\ req[r].pc = "done"
       /\ req[r].resp = 400 /\ req[r].err = "format" /\ req[r].reads = 0

\* A request arrives in slot r in this step.
Arrives(r) == Free(r) /\ req'[r] # req[r]

\* C7: a request to a journal or account endpoint that arrives while the
\* session has no user is answered 401 at once, reads and writes nothing;
\* the session gains a user only in /auth/google and loses it in
\* /auth/logout (or when it lapses).
C7_NoUserIs401 ==
  [][/\ \A r \in Reqs :
          (Arrives(r) /\ ~sessionUser)
          => /\ req'[r].pc = "done"
             /\ req'[r].resp = 401
             /\ req'[r].nresp = 1
             /\ req'[r].reads = 0
             /\ req'[r].writes = 0
             /\ journal' = journal
             /\ accounts' = accounts
     /\ (~sessionUser /\ sessionUser') => AuthGoogle
     /\ (sessionUser /\ ~sessionUser') => (AuthLogout \/ SessionExpire)]_vars

C7_Witness ==
  /\ ~sessionUser
  /\ \E r \in Reqs :
       /\ req[r].kind = "PUT /accounts/:id" /\ req[r].pc = "done"
       /\ req[r].resp = 401 /\ req[r].reads = 0 /\ req[r].writes = 0

\* C8: a POST /journal reads the maximum at most once and saves at most
\* once, answers at most once, and when the store fails in either call it
\* is answered 500 once and has stored nothing.
C8_StoreFailureTerminal ==
  /\ [](\A r \in Reqs :
          IsPost(req[r]) =>
            /\ req[r].reads <= 1 /\ req[r].writes <= 1 /\ req[r].nresp <= 1
            /\ req[r].err = "store"
               => req[r].pc = "done" /\ req[r].resp = 500 /\ req[r].nresp = 1)
  /\ [][\A r \in Reqs :
          (IsPost(req'[r]) /\ req'[r] # req[r] /\ req'[r].err = "store")
          => journal' = journal /\ created' = created]_vars

C8_Witness ==
  \E r \in Reqs :
    /\ IsPost(req[r]) /\ req[r].err = "store" /\ req[r].resp = 500
    /\ req[r].reads = 1 /\ req[r].writes = 1
    /\ created = 0

\* C9: no two stored journal entries have the same trans_id.
C9_TransIdUnique ==
  \A i, k \in Stored(journal) : i # k => journal[i] # journal[k]

\* A PUT carrying another entry's trans_id was refused by the index.
C9_Witness ==
  /\ Cardinality(Stored(journal)) = 2
  /\ \E r \in Reqs :
       /\ req[r].kind = "PUT /journal/:id" /\ req[r].err = "duplicate"
       /\ req[r].resp = 500

\* C10 as stated: no two stored accounts have the same number.
C10_NumberUnique ==
  \A i, k \in StoredAcc(accounts) : i # k => accounts[i] # accounts[k]
====
